---- MODULE Spec2Model ----
(***************************************************************************)
(* Model of features/steps/integration_binding.py: the Behave step         *)
(* definitions that run a CEL expression and verify its outcome.           *)
(*                                                                         *)
(* Python values are modelled as tagged tuples so that values of different *)
(* Python types can be compared:                                           *)
(*   None                  <<"NoneType">>                                  *)
(*   a str held in the bag <<"str", s>>                                    *)
(*   celtypes.IntType(1)   <<"IntType", 1>>                                *)
(*   Value(value_type, v)  <<value_type, v>>          (a NamedTuple)       *)
(*   ErrorCategory.x       <<"ErrorCategory", "x">>                        *)
(* A text that is scanned character by character (the CEL expression) is a *)
(* sequence of one-character strings.                                      *)
(***************************************************************************)
EXTENDS Integers, Sequences, FiniteSets, TLC

VARIABLES
    data,         \* context.data, the scenario bag: a function on the keys present
    userdata,     \* context.config.userdata (the -D options of the run)
    step,         \* the step that ran last
    arg,          \* the parameter of the step that ran last
    status,       \* how the step that ran last ended: "passed" or the exception raised
    actual_ec,    \* local actual_ec of the step that ran last, when it has one
    expected_ec,  \* local expected_ec of the step that ran last, when it has one
    expr_text,    \* argument expr_text of expand_textproto_escapes
    quote,        \* argument quote of expand_textproto_escapes
    expansions,   \* results of the successive applications of expand_textproto_escapes
    node,         \* a Value whose cel_value is taken
    outcome       \* what taking node.cel_value did

vars == <<data, userdata, step, arg, status, actual_ec, expected_ec,
          expr_text, quote, expansions, node, outcome>>

scenario_vars == <<data, userdata, step, arg, status, actual_ec, expected_ec>>
escape_vars == <<expr_text, quote, expansions>>
value_vars == <<node, outcome>>

-----------------------------------------------------------------------------
(* Bounds of the model. *)

\* Longest expression text given to expand_textproto_escapes.
MaxLen == 3

\* Largest magnitude of an integer payload of a Value.
MaxInt == 6

-----------------------------------------------------------------------------
(* Python values. *)

None == <<"NoneType">>

Str(s) == <<"str", s>>

Return(v) == <<"return", v>>

Raise(exc) == <<"raise", exc>>

Unbound == <<"unbound">>

\* d[k] = v, for a dict d
Put(d, k, v) == [x \in (DOMAIN d) \cup {k} |-> IF x = k THEN v ELSE d[x]]

-----------------------------------------------------------------------------
(* class Value: cel_value and type_mapping. *)

\* The keys of name_to_cel with the implementation type each names.
name_to_cel ==
    [name \in {"bool", "bytes", "double", "duration", "int", "list", "map",
               "null_type", "string", "timestamp", "uint", "type",
               "google.protobuf.Duration", "google.protobuf.Timestamp"} |->
        CASE name = "bool" -> "BoolType"
          [] name = "bytes" -> "BytesType"
          [] name = "double" -> "DoubleType"
          [] name = "duration" -> "DurationType"
          [] name = "int" -> "IntType"
          [] name = "list" -> "ListType"
          [] name = "map" -> "MapType"
          [] name = "null_type" -> "NoneType"
          [] name = "string" -> "StringType"
          [] name = "timestamp" -> "TimestampType"
          [] name = "uint" -> "UintType"
          [] name = "type" -> "type"
          [] name = "google.protobuf.Duration" -> "DurationType"
          [] name = "google.protobuf.Timestamp" -> "TimestampType"]

\* type_mapping with a fault: name_to_cel.get(name), None for a name not in the table.
type_mapping_get(name) ==
    IF name \in DOMAIN name_to_cel
    THEN Return(<<"type", name_to_cel[name]>>)
    ELSE Return(None)

\* Value.type_mapping: name_to_cel[name], a KeyError for a name not in the table.
type_mapping(name) ==
    IF name \in DOMAIN name_to_cel
    THEN Return(<<"type", name_to_cel[name]>>)
    ELSE Raise("KeyError")

\* Value.cel_value of self = <<value_type, value>>.
cel_value(self) ==
    LET value_type == self[1]
        value == self[2]
    IN  IF value_type = "int64_value" THEN Return(<<"IntType", value>>)
        ELSE IF value_type = "uint64_value" THEN Return(<<"UintType", value>>)
        ELSE IF value_type = "double_value" THEN
            IF value = "inf" THEN Return(<<"DoubleType", "inf">>)
            ELSE IF value = "-inf" THEN Return(<<"DoubleType", "-inf">>)
            ELSE Return(<<"DoubleType", value>>)
        ELSE IF value_type = "string_value" THEN Return(<<"StringType", value>>)
        ELSE IF value_type = "bytes_value" THEN Return(<<"BytesType", value>>)
        ELSE IF value_type = "bool_value" THEN Return(<<"BoolType", value>>)
        ELSE IF value_type = "null_value" THEN Return(None)
        ELSE IF value_type = "type" THEN type_mapping(value)
        ELSE Raise("ValueError")

-----------------------------------------------------------------------------
(* expand_textproto_escapes. *)

BS == "\\"

DQ == "\""

SQ == "'"

NL == "\n"

\* escape_pat.finditer(expr_text) from position i: the matches of the pattern
\* \\<quote>|. in order. The first alternative is tried first; "." matches any
\* character but a line break, and a position where nothing matches is skipped.
RECURSIVE finditer(_, _, _)
finditer(text, q, i) ==
    IF i > Len(text) THEN <<>>
    ELSE IF text[i] = BS /\ i < Len(text) /\ text[i + 1] = q
         THEN << <<BS, q>> >> \o finditer(text, q, i + 2)
    ELSE IF text[i] # NL
         THEN << <<text[i]>> >> \o finditer(text, q, i + 1)
    ELSE finditer(text, q, i + 1)

\* replacements.get(match.group(), match.group())
replacements_get(group, q) == IF group = <<BS, q>> THEN <<q>> ELSE group

\* ''.join(parts)
RECURSIVE join(_)
join(parts) == IF parts = <<>> THEN <<>> ELSE Head(parts) \o join(Tail(parts))

\* expand_textproto_escapes with a fault: a backslash escapes whatever follows it.
RECURSIVE expand_any_escape(_, _)
expand_any_escape(text, q) ==
    IF text = <<>> THEN <<>>
    ELSE IF Head(text) = BS /\ Len(text) > 1
         THEN <<text[2]>> \o expand_any_escape(Tail(Tail(text)), q)
    ELSE <<Head(text)>> \o expand_any_escape(Tail(text), q)

\* expand_textproto_escapes(expr_text, quote)
expand_textproto_escapes(text, q) ==
    LET match_iter == finditer(text, q, 1)
    IN  join([k \in 1..Len(match_iter) |-> replacements_get(match_iter[k], q)])

-----------------------------------------------------------------------------
(* ErrorCategory, ERROR_ALIASES, error_category. *)

\* ErrorCategory.__members__
ErrorCategory ==
    {"divide_by_zero", "modulus_by_zero", "no_such_overload", "integer_overflow",
     "undeclared_reference", "unknown_variable"}

EC(name) == <<"ErrorCategory", name>>

\* ERROR_ALIASES with a fault: the entry for "division by zero" is missing.
ERROR_ALIASES_without_division ==
    [text \in {"divide by zero", "modulus by zero", "no such overload",
               "no matching overload", "return error for overflow",
               "unknown varaible"} |->
        CASE text = "divide by zero" -> EC("divide_by_zero")
          [] text = "modulus by zero" -> EC("modulus_by_zero")
          [] text = "no such overload" -> EC("no_such_overload")
          [] text = "no matching overload" -> EC("no_such_overload")
          [] text = "return error for overflow" -> EC("integer_overflow")
          [] text = "unknown varaible" -> EC("unknown_variable")]

ERROR_ALIASES ==
    [text \in {"division by zero", "divide by zero", "modulus by zero",
               "no such overload", "no matching overload",
               "return error for overflow", "unknown varaible"} |->
        CASE text = "division by zero" -> EC("divide_by_zero")
          [] text = "divide by zero" -> EC("divide_by_zero")
          [] text = "modulus by zero" -> EC("modulus_by_zero")
          [] text = "no such overload" -> EC("no_such_overload")
          [] text = "no matching overload" -> EC("no_such_overload")
          [] text = "return error for overflow" -> EC("integer_overflow")
          [] text = "unknown varaible" -> EC("unknown_variable")]

\* text.startswith(prefix): the first len(prefix) characters of text are prefix.
startswith(text, prefix) ==
    Len(text) >= Len(prefix) /\ SubSeq(text, 1, Len(prefix)) = prefix

\* error_category(text); a function that ends without a return returns None.
error_category(text) ==
    IF text \in ErrorCategory THEN EC(text)
    ELSE IF text \in DOMAIN ERROR_ALIASES THEN ERROR_ALIASES[text]
    ELSE IF startswith(text, "undeclared reference") THEN EC("undeclared_reference")
    ELSE None

-----------------------------------------------------------------------------
(* The steps, as functions of the bag and of the step's parameter. *)

\* What the external evaluator does with an expression: compile(), program() and
\* evaluate() end with a result, with a CELEvalError carrying a message, or with
\* another exception, which cel() does not catch.
Results == {<<"IntType", 1>>, <<"IntType", 2>>, None}

Messages ==
    {"divide by zero", "division by zero", "no such overload",
     "found no matching overload for '_/_'", "",
     "undeclared reference to 'x' (in container '')",
     "undeclared reference to 'y' (in container '')",
     "undeclared"}

Evaluations ==
    {Return(result) : result \in Results}
        \cup {<<"raise", "CELEvalError", message>> : message \in Messages}
        \cup {Raise("Exception")}

\* cel(context): the bag after the try statement of lines 289-295.
cel(context_data, evaluation) ==
    IF evaluation[1] = "return"
    THEN Put(Put(context_data, "result", evaluation[2]), "error", None)
    ELSE IF evaluation[2] = "CELEvalError"
    THEN Put(context_data, "error", Str(evaluation[3]))
    ELSE context_data

\* How cel(context) ends.
cel_status(evaluation) ==
    IF evaluation[1] = "raise" /\ evaluation[2] # "CELEvalError"
    THEN evaluation[2]
    ELSE "passed"

\* @then('value is {value}'): how the step ends; expected is eval(value).
value_is_status(context_data, expected) ==
    IF "result" \notin DOMAIN context_data
    THEN IF "error" \in DOMAIN context_data THEN "AssertionError" ELSE "KeyError"
    ELSE LET result == context_data["result"]
         IN  IF expected # None
             THEN LET translated == cel_value(expected)
                  IN  IF translated[1] = "raise" THEN translated[2]
                      ELSE IF result = translated[2] THEN "passed"
                      ELSE "AssertionError"
             ELSE IF result = None THEN "passed" ELSE "AssertionError"

\* context.data['error'] or ""
error_or_empty(error) == IF error = None \/ error = Str("") THEN "" ELSE error[2]

\* context.config.userdata.get("match", "any")
userdata_get_match(config_userdata) ==
    IF "match" \in DOMAIN config_userdata THEN config_userdata["match"] ELSE "any"

\* eval_error_is_status with a fault: the assertion that an error was captured is
\* taken out of the else branch and the categories are compared in either mode.
eval_error_is_status_always_exact(context_data, config_userdata, text) ==
    IF "error" \notin DOMAIN context_data THEN "KeyError"
    ELSE IF error_category(text) # error_category(error_or_empty(context_data["error"]))
    THEN "AssertionError"
    ELSE IF context_data["error"] # None THEN "passed" ELSE "AssertionError"

\* eval_error_is_status with a fault: the exact mode compares nothing.
eval_error_is_status_never_exact(context_data, config_userdata, text) ==
    IF "error" \notin DOMAIN context_data THEN "KeyError"
    ELSE IF context_data["error"] # None THEN "passed" ELSE "AssertionError"

\* @then('eval_error is "{text}"'): how the step ends.
eval_error_is_status(context_data, config_userdata, text) ==
    IF "error" \notin DOMAIN context_data THEN "KeyError"
    ELSE LET actual == error_category(error_or_empty(context_data["error"]))
             expected == error_category(text)
         IN  IF userdata_get_match(config_userdata) = "exact"
             THEN IF expected = actual THEN "passed" ELSE "AssertionError"
             ELSE IF context_data["error"] # None THEN "passed" ELSE "AssertionError"

\* @then('eval_error is None'): how the step ends.
eval_error_is_none_status(context_data) ==
    IF "error" \notin DOMAIN context_data THEN "KeyError"
    ELSE IF context_data["error"] = None THEN "passed" ELSE "AssertionError"

-----------------------------------------------------------------------------
(* The inputs of the model. *)

Quotes == {DQ, SQ}

Alphabet == {BS, DQ, SQ, NL, "a"}

\* The texts of at most n characters.
RECURSIVE Texts(_)
Texts(n) ==
    IF n = 0 THEN {<<>>}
    ELSE LET shorter == Texts(n - 1)
         IN  shorter \cup {Append(t, c) : t \in shorter, c \in Alphabet}

\* The expressions of the feature files of the model, as the step pattern captures
\* them: 1/0 and "a\"" with its quote escaped.
Expressions == {<<"1", "/", "0">>, <<DQ, "a", BS, DQ, DQ>>}

\* The texts of the eval_error steps.
ExpectedTexts ==
    {"division by zero", "divide by zero", "no such overload", "no matching overload",
     "unknown variable", "divide_by_zero", "undeclared reference",
     "undeclared reference to 'x'", "undeclared referenceX"}

\* The values of the value steps, evaluated: None or a Value.
ExpectedValues ==
    {None, <<"int64_value", 1>>, <<"null_value", None>>,
     <<"type", "dyn">>, <<"float_value", 1>>}

\* The -D options of a run.
Userdata == {<<>>, [match |-> "any"], [match |-> "exact"]}

DeclaredKinds ==
    {"int64_value", "uint64_value", "double_value", "string_value", "bytes_value",
     "bool_value", "null_value", "type"}

UndeclaredKinds == {"float_value", "list_value", ""}

TypeNames == (DOMAIN name_to_cel) \cup {"dyn", "google.protobuf.Any", "Int"}

\* The Value nodes whose cel_value is taken.
Values ==
    {<<"int64_value", i>> : i \in (-MaxInt)..MaxInt}
        \cup {<<"uint64_value", i>> : i \in 0..MaxInt}
        \cup {<<"double_value", x>> : x \in {"inf", "-inf", "1.5", "nan"}}
        \cup {<<"string_value", x>> : x \in {"", "a", "inf"}}
        \cup {<<"bytes_value", x>> : x \in {"", "a"}}
        \cup {<<"bool_value", x>> : x \in BOOLEAN}
        \cup {<<"null_value", None>>}
        \cup {<<"type", name>> : name \in TypeNames}
        \cup {<<kind, x>> : kind \in UndeclaredKinds, x \in {"", "a", "1"}}

-----------------------------------------------------------------------------
(* The scenario: steps run one after the other against one bag. *)

ScenarioIdle ==
    /\ data = <<>>
    /\ step = "before_scenario"
    /\ arg = None
    /\ status = "passed"
    /\ actual_ec = Unbound
    /\ expected_ec = Unbound

EscapeIdle == expr_text = <<>> /\ quote = DQ /\ expansions = <<>>

ValueIdle == node = None /\ outcome = Unbound

\* A scenario starts with a bag holding neither a result nor an error. The keys the
\* Given steps set (container, type_env, bindings, disable_check) reach only the
\* external evaluator, whose outcome the When steps draw.
Init ==
    /\ ScenarioIdle
    /\ userdata \in Userdata
    /\ EscapeIdle
    /\ ValueIdle

\* @when('CEL expression "{expr}" is evaluated') and its single-quoted twin.
WhenEvaluated ==
    \E expr \in Expressions, q \in Quotes, evaluation \in Evaluations :
        /\ data' = cel(Put(data, "expr", expand_textproto_escapes(expr, q)), evaluation)
        /\ step' = "cel"
        /\ arg' = <<expr, q>>
        /\ status' = cel_status(evaluation)
        /\ actual_ec' = Unbound
        /\ expected_ec' = Unbound
        /\ UNCHANGED <<userdata, escape_vars, value_vars>>

\* @then('value is {value}')
ThenValueIs ==
    \E expected \in ExpectedValues :
        /\ data' = Put(data, "expected", expected)
        /\ step' = "value"
        /\ arg' = expected
        /\ status' = value_is_status(data, expected)
        /\ actual_ec' = Unbound
        /\ expected_ec' = Unbound
        /\ UNCHANGED <<userdata, escape_vars, value_vars>>

\* @then('eval_error is "{text}"')
ThenEvalErrorIs ==
    \E text \in ExpectedTexts :
        /\ step' = "eval_error"
        /\ arg' = Str(text)
        /\ status' = eval_error_is_status(data, userdata, text)
        /\ actual_ec' = IF "error" \in DOMAIN data
                        THEN error_category(error_or_empty(data["error"]))
                        ELSE Unbound
        /\ expected_ec' = IF "error" \in DOMAIN data THEN error_category(text) ELSE Unbound
        /\ UNCHANGED <<data, userdata, escape_vars, value_vars>>

\* @then('eval_error is None')
ThenEvalErrorIsNone ==
    /\ step' = "eval_error_none"
    /\ arg' = None
    /\ status' = eval_error_is_none_status(data)
    /\ actual_ec' = Unbound
    /\ expected_ec' = Unbound
    /\ UNCHANGED <<data, userdata, escape_vars, value_vars>>

Next == WhenEvaluated \/ ThenValueIs \/ ThenEvalErrorIs \/ ThenEvalErrorIsNone

Spec == Init /\ [][Next]_vars

-----------------------------------------------------------------------------
(* expand_textproto_escapes applied to a text, and to its own result. *)

InitEscape ==
    /\ ScenarioIdle
    /\ userdata = <<>>
    /\ ValueIdle
    /\ expr_text \in Texts(MaxLen)
    /\ quote \in Quotes
    /\ expansions = <<>>

Expand ==
    /\ expansions = <<>>
    /\ expansions' = <<expand_textproto_escapes(expr_text, quote)>>
    /\ UNCHANGED <<expr_text, quote, scenario_vars, value_vars>>

ExpandAgain ==
    /\ Len(expansions) = 1
    /\ expansions' = Append(expansions, expand_textproto_escapes(expansions[1], quote))
    /\ UNCHANGED <<expr_text, quote, scenario_vars, value_vars>>

NextEscape == Expand \/ ExpandAgain

SpecEscape == InitEscape /\ [][NextEscape]_vars

-----------------------------------------------------------------------------
(* Value.cel_value taken of a node. *)

InitValue ==
    /\ ScenarioIdle
    /\ userdata = <<>>
    /\ EscapeIdle
    /\ node \in Values
    /\ outcome = Unbound

Translate ==
    /\ outcome = Unbound
    /\ outcome' = cel_value(node)
    /\ UNCHANGED <<node, scenario_vars, escape_vars>>

NextValue == Translate

SpecValue == InitValue /\ [][NextValue]_vars

-----------------------------------------------------------------------------
(* Vocabulary of the properties. *)

Policy == IF userdata_get_match(userdata) = "exact" THEN "exact" ELSE "any"

ErrorStored == "error" \in DOMAIN data

ErrorCaptured == ErrorStored /\ data["error"] # None

ResultStored == "result" \in DOMAIN data

Categories == {EC(name) : name \in ErrorCategory}

\* A backslash immediately followed by the quote character occurs in text.
HasEscapedQuote(text, q) ==
    \E i \in 1..(Len(text) - 1) : text[i] = BS /\ text[i + 1] = q

\* The text with every backslash-quote unit, found scanning from the left, replaced
\* by the quote character and every other character kept.
RECURSIVE ReplaceEscapedQuotes(_, _)
ReplaceEscapedQuotes(text, q) ==
    IF text = <<>> THEN <<>>
    ELSE IF Len(text) > 1 /\ text[1] = BS /\ text[2] = q
         THEN <<q>> \o ReplaceEscapedQuotes(Tail(Tail(text)), q)
    ELSE <<Head(text)>> \o ReplaceEscapedQuotes(Tail(text), q)

-----------------------------------------------------------------------------
(* The properties. *)

\* C1: once an evaluation step has completed, the bag holds exactly one of a stored
\* result and a captured (non-None) error: never both, never neither.
C1_ResultXorError ==
    (step = "cel" /\ status = "passed") => (ResultStored # ErrorCaptured)

\* C2: the step eval_error is "text" does not pass when the stored error is None,
\* whatever the text and under either match policy.
C2_NoErrorNeverPasses ==
    (step = "eval_error" /\ ErrorStored /\ data["error"] = None) => status # "passed"

\* C3, as claimed: whenever the actual and the expected category differ, the step
\* eval_error is "text" passes under the any policy and fails under the exact policy.
C3_MismatchPolicy ==
    (step = "eval_error" /\ ErrorStored /\ actual_ec # expected_ec) =>
        IF Policy = "exact" THEN status = "AssertionError" ELSE status = "passed"

\* C3, amended: whenever an error was captured and its category differs from the
\* expected category, the step eval_error is "text" passes under the any policy and
\* fails under the exact policy.
C3_MismatchPolicyOfCapturedError ==
    (step = "eval_error" /\ ErrorCaptured /\ actual_ec # expected_ec) =>
        IF Policy = "exact" THEN status = "AssertionError" ELSE status = "passed"

\* C3, its case: under the exact policy a captured error of another category than
\* the expected one has failed the step.
C3_Witness ==
    /\ step = "eval_error"
    /\ ErrorCaptured
    /\ actual_ec \in Categories
    /\ expected_ec \in Categories
    /\ actual_ec # expected_ec
    /\ Policy = "exact"
    /\ status = "AssertionError"

\* C4: the classifier maps every text to one of the six categories or to
\* unclassified, and the classification of an absent message (no error) differs
\* from the classification of a text that is unclassified.
C4_NoErrorIsNotUnclassified ==
    (step = "eval_error" /\ ErrorStored) =>
        /\ expected_ec \in Categories \cup {None}
        /\ actual_ec \in Categories \cup {None}
        /\ (data["error"] = None /\ expected_ec \notin Categories)
               => actual_ec # expected_ec

\* C5, as claimed: expanding the expansion of a text again changes nothing.
C5_Idempotent ==
    Len(expansions) = 2 => expansions[2] = expansions[1]

\* C5, amended: expanding the expansion of a text again changes nothing exactly when
\* the first expansion holds no backslash immediately followed by the quote.
C5_IdempotentUnlessEscapeRemains ==
    Len(expansions) = 2 =>
        ((expansions[2] = expansions[1]) <=> ~HasEscapedQuote(expansions[1], quote))

\* C5, its case: a text with an escaped quote was expanded, and expanding the result
\* again changed nothing.
C5_Witness ==
    /\ Len(expansions) = 2
    /\ HasEscapedQuote(expr_text, quote)
    /\ expansions[1] # expr_text
    /\ expansions[2] = expansions[1]

\* C6: the expansion of a text is the text with every backslash-quote unit replaced
\* by the quote and every other character kept, in order; a text with no such unit
\* is its own expansion.
C6_OnlyEscapedQuotesChange ==
    Len(expansions) >= 1 =>
        /\ expansions[1] = ReplaceEscapedQuotes(expr_text, quote)
        /\ ~HasEscapedQuote(expr_text, quote) => expansions[1] = expr_text

\* C7: the step value is ... does not pass when the latest evaluation captured an
\* error; when it passes, a result is stored, equal to the translated expected value,
\* or None for an absent expectation.
C7_ValueStepFailsAfterError ==
    step = "value" =>
        /\ ErrorCaptured => status # "passed"
        /\ status = "passed" =>
               /\ ResultStored
               /\ IF arg = None THEN data["result"] = None
                  ELSE cel_value(arg) = Return(data["result"])

\* C8: cel_value of a node of a declared scalar kind returns a value; of any other
\* kind it raises ValueError; of a type reference it returns a type when the name is
\* in name_to_cel and raises KeyError, not ValueError, when it is not.
C8_ScalarTranslation ==
    outcome # Unbound =>
        /\ node[1] \in DeclaredKinds \ {"type"} => outcome[1] = "return"
        /\ node[1] \notin DeclaredKinds => outcome = Raise("ValueError")
        /\ (node[1] = "type" /\ node[2] \in DOMAIN name_to_cel) =>
               outcome = Return(<<"type", name_to_cel[node[2]]>>)
        /\ (node[1] = "type" /\ node[2] \notin DOMAIN name_to_cel) =>
               outcome = Raise("KeyError")

\* C8, its case: the cel_value of a type reference to an unknown name was taken.
C8_Witness ==
    /\ node[1] = "type"
    /\ node[2] \notin DOMAIN name_to_cel
    /\ outcome = Raise("KeyError")

\* C9: "division by zero" and "divide by zero" classify as divide_by_zero, "no such
\* overload" and "no matching overload" as no_such_overload, as expected text and as
\* captured error alike; and when the captured error classifies as divide_by_zero
\* the expected text "division by zero" passes under either policy.
C9_AliasesAgree ==
    (step = "eval_error" /\ ErrorStored) =>
        /\ arg \in {Str("division by zero"), Str("divide by zero")}
               => expected_ec = EC("divide_by_zero")
        /\ arg \in {Str("no such overload"), Str("no matching overload")}
               => expected_ec = EC("no_such_overload")
        /\ data["error"] \in {Str("division by zero"), Str("divide by zero")}
               => actual_ec = EC("divide_by_zero")
        /\ data["error"] = Str("no such overload") => actual_ec = EC("no_such_overload")
        /\ (actual_ec = EC("divide_by_zero") /\ arg = Str("division by zero"))
               => status = "passed"

\* C9, its case: under the exact policy the error "divide by zero" was captured and
\* the expected text "division by zero" has passed.
C9_Witness ==
    /\ step = "eval_error"
    /\ ErrorStored
    /\ data["error"] = Str("divide by zero")
    /\ arg = Str("division by zero")
    /\ Policy = "exact"
    /\ status = "passed"

\* C10: under the any policy the step eval_error is "text" passes exactly when the
\* stored error is not None, and the same step with any other text on the same bag
\* ends the same way.
C10_TextDoesNotDecide ==
    (step = "eval_error" /\ Policy = "any") =>
        /\ status = "passed" <=> ErrorCaptured
        /\ \A text \in ExpectedTexts : eval_error_is_status(data, userdata, text) = status

\* C10, its case: under the any policy the step has passed although the expected
\* text classifies differently from the captured error.
C10_Witness ==
    /\ step = "eval_error"
    /\ Policy = "any"
    /\ ErrorCaptured
    /\ expected_ec \in Categories
    /\ actual_ec # expected_ec
    /\ status = "passed"

====
